---- MODULE Spec2Model ----
\* Wave Function Collapse graph coloring (src/src/algo/wfc_color.rs), modelled
\* as a state machine over the program positions of wfc_color.  The input graph
\* is a state that never changes: its dense index range, its vertex count and,
\* for every vertex, the sequence neighbors() enumerates.
EXTENDS Integers, Sequences, FiniteSets, TLC

\* ------------------------------------------------------------------ bounds
\* Largest node_bound() of an input graph.
MaxN == 4
\* Largest number of undirected edges of an input graph.
MaxEdges == 4
\* Largest number of undirected edges of an input graph of the runs checked
\* for termination, and of the runs on a graph whose vertex count exceeds its
\* index range.
MaxFairEdges == 4
\* Largest number of arcs of a directed input graph.
MaxArcs == 4
\* Largest number of increments of max_colors a run is followed through.
MaxRestarts == 2

\* ------------------------------------------------------------------ state
VARIABLES
    node_bound,   \* graph.node_bound(): vertices are the indices 0..node_bound-1
    node_count,   \* graph.node_count()
    neighbors,    \* neighbors[v]: the sequence graph.neighbors(v) yields
    pc,           \* position in wfc_color: "call", "loop", "while", "done", "panic"
    max_colors,   \* the color budget
    colors,       \* HashMap vertex -> color, a function on the fixed vertices
    domains,      \* HashMap vertex -> Vec of candidate colors
    start,        \* the local `start`: <<>> before it is set, <<v>> after
    next,         \* the local `next`: <<>> for None (or not yet set), <<v>> for Some(v)
    conflict,     \* history: propagate has forced a vertex to the color of a
                  \* neighbor that was fixed at that moment
    covered       \* history: the pairs <<u, v>>, v yielded by neighbors(u), where
                  \* the driver fixed u while v was uncolored

vars == <<node_bound, node_count, neighbors, pc, max_colors, colors, domains,
          start, next, conflict, covered>>

graph == <<node_bound, node_count, neighbors>>

\* (0..graph.node_bound()).map(|i| graph.from_index(i))
Vertices == 0 .. node_bound - 1

\* The set of vertices graph.neighbors(v) yields.
adjacent(v) == {neighbors[v][i] : i \in 1 .. Len(neighbors[v])}

\* ------------------------------------------------------------------ inputs
\* All enumeration orders of a finite set.
RECURSIVE Orders(_)
Orders(S) ==
    IF S = {} THEN {<<>>}
    ELSE UNION {{<<x>> \o p : p \in Orders(S \ {x})} : x \in S}

\* The unordered pairs of distinct vertices of a graph with n vertices.
Pairs(n) == {e \in SUBSET (0 .. n - 1) : Cardinality(e) = 2}

Adjacent(E, v) == {w \in UNION E : {v, w} \in E}

\* Every way to enumerate the neighbors of vertices 0..k-1 of the simple
\* undirected graph with edge set E, as a sequence whose entry v+1 is the list
\* of vertex v.
RECURSIVE AdjacencyLists(_, _)
AdjacencyLists(E, k) ==
    IF k = 0 THEN {<<>>}
    ELSE {Append(f, o) : f \in AdjacencyLists(E, k - 1), o \in Orders(Adjacent(E, k - 1))}

\* The edge sets of the simple undirected graphs with n vertices and at most
\* k edges.
EdgeSets(n, k) == {F \in SUBSET Pairs(n) : Cardinality(F) <= k}

\* ------------------------------------------------------------------ propagate
\* Vec::contains
contains(domain, color) == \E i \in 1 .. Len(domain) : domain[i] = color

\* Mutant: the predicate of retain inverted, which keeps the color instead.
retain_inverted(domain, color) == SelectSeq(domain, LAMBDA c : c = color)

\* domain.retain(|&c| c != color)
retain(domain, color) == SelectSeq(domain, LAMBDA c : c # color)

\* domain.len() == 1: the neighbor is forced
is_forced(domain) == Len(domain) = 1

\* stack.push(neighbor)
push(stack, neighbor) == Append(stack, neighbor)

\* The body of `for neighbor in graph.neighbors(u)` for one neighbor; st is the
\* record of colors, domains and stack, and of the history flag conflict, set
\* when the forced color is the color of a neighbor fixed at that moment.
visit_body(st, color, neighbor) ==
    IF /\ neighbor \notin DOMAIN st.colors
       /\ neighbor \in DOMAIN st.domains
       /\ contains(st.domains[neighbor], color)
    THEN LET domain == retain(st.domains[neighbor], color) IN
         IF is_forced(domain)
         THEN [colors   |-> (neighbor :> domain[1]) @@ st.colors,
               domains  |-> [st.domains EXCEPT ![neighbor] = domain],
               stack    |-> push(st.stack, neighbor),
               conflict |-> \/ st.conflict
                            \/ \E w \in adjacent(neighbor) :
                                  w \in DOMAIN st.colors /\ st.colors[w] = domain[1]]
         ELSE [st EXCEPT !.domains[neighbor] = domain]
    ELSE st

\* visit_body on the value of its argument: binding st to the value makes the
\* chain of loop iterations be evaluated once.
visit(arg, color, neighbor) ==
    CHOOSE r \in {visit_body(st, color, neighbor) : st \in {arg}} : TRUE

\* The for loop over graph.neighbors(u), from position i of the enumeration.
RECURSIVE for_neighbors(_, _, _, _)
for_neighbors(st, color, ns, i) ==
    IF i > Len(ns) THEN st
    ELSE for_neighbors(visit(st, color, ns[i]), color, ns, i + 1)

\* One turn of `while let Some(u) = stack.pop()` and the turns after it.
RECURSIVE while_pop(_)
pop_body(st) ==
    IF st.stack = <<>> THEN st
    ELSE LET u == st.stack[Len(st.stack)]
             popped == [st EXCEPT !.stack = SubSeq(st.stack, 1, Len(st.stack) - 1)]
         IN  IF u \in DOMAIN popped.colors
             THEN while_pop(for_neighbors(popped, popped.colors[u], neighbors[u], 1))
             ELSE while_pop(popped)

\* while let Some(u) = stack.pop(), on the value of its argument.
while_pop(arg) == CHOOSE r \in {pop_body(st) : st \in {arg}} : TRUE

\* Mutant: the work list starts empty, so nothing is propagated.
propagate_skipped(v, c, d) ==
    [colors |-> c, domains |-> d, stack |-> <<>>, conflict |-> FALSE]

\* propagate(&graph, start, &mut colors, &mut domains)
propagate(v, c, d) ==
    while_pop([colors |-> c, domains |-> d, stack |-> <<v>>, conflict |-> FALSE])

\* ------------------------------------------------------------------ driver
\* usize::MAX, the key of a vertex without candidates (stands for 2^64 - 1,
\* which no domain length reaches).
usize_MAX == 2147483647

\* entropy(node, &colors, &domains)
entropy(node, c, d) ==
    IF node \in DOMAIN c THEN 0
    ELSE IF node \in DOMAIN d THEN Len(d[node]) ELSE 0

\* graph.neighbors(n).count()
degree(n) == Len(neighbors[n])

\* max over the vertices of the degree, unwrap_or(0)
max_degree ==
    IF Vertices = {} THEN 0
    ELSE CHOOSE m \in {degree(v) : v \in Vertices} : \A v \in Vertices : degree(v) <= m

\* Mutant: the budget sized without the + 1.
initial_max_colors_short == max_degree

\* let mut max_colors = max_degree + 1
initial_max_colors == max_degree + 1

\* Mutant: the half-open range 1..max_colors.
full_domain_exclusive(n) == [i \in 1 .. n - 1 |-> i]

\* Mutant: 0-based colors, 0..max_colors.
full_domain_zero_based(n) == [i \in 1 .. n |-> i - 1]

\* (1..=max_colors).collect()
full_domain(n) == [i \in 1 .. n |-> i]

\* Mutant: the first vertex of maximum degree (as min_by_key breaks its ties).
start_vertex_first ==
    CHOOSE s \in Vertices :
        /\ \A v \in Vertices : degree(v) <= degree(s)
        /\ \A v \in Vertices : degree(v) = degree(s) => s <= v

\* Mutant: the first vertex of the index range, whatever its degree.
start_vertex_index_0 == CHOOSE s \in Vertices : \A v \in Vertices : s <= v

\* Iterator::max_by_key over the index range: the last vertex of maximum degree.
\* Defined when the graph has a vertex.
start_vertex ==
    CHOOSE s \in Vertices :
        /\ \A v \in Vertices : degree(v) <= degree(s)
        /\ \A v \in Vertices : degree(v) = degree(s) => v <= s

\* The key min_by_key compares.
min_key(v, c, d) == LET e == entropy(v, c, d) IN IF e = 0 THEN usize_MAX ELSE e

\* The uncolored vertices the filter lets through.
uncolored(c) == {v \in Vertices : v \notin DOMAIN c}

\* Mutant: the last vertex of minimum key (as max_by_key breaks its ties).
next_vertex_last(c, d) ==
    CHOOSE m \in uncolored(c) :
        /\ \A v \in uncolored(c) : min_key(m, c, d) <= min_key(v, c, d)
        /\ \A v \in uncolored(c) : min_key(v, c, d) = min_key(m, c, d) => v <= m

\* Iterator::min_by_key over the filtered index range: the first vertex of
\* minimum key. Defined when uncolored(c) is not empty.
next_vertex(c, d) ==
    CHOOSE m \in uncolored(c) :
        /\ \A v \in uncolored(c) : min_key(m, c, d) <= min_key(v, c, d)
        /\ \A v \in uncolored(c) : min_key(v, c, d) = min_key(m, c, d) => m <= v

\* Mutant: the last candidate of the domain.
first_last(domain) == domain[Len(domain)]

\* domain[0]
first(domain) == domain[1]

\* Mutant: the loop stops one vertex early.
loop_guard_early(c) == Cardinality(DOMAIN c) + 1 < node_count

\* Mutant: the loop goes on after the last vertex is fixed.
loop_guard_late(c) == Cardinality(DOMAIN c) <= node_count

\* colors.len() < graph.node_count()
loop_guard(c) == Cardinality(DOMAIN c) < node_count

\* ------------------------------------------------------------------ actions
\* The locals of wfc_color before its first statement.
Fresh ==
    /\ pc = "call"
    /\ max_colors = 0
    /\ colors = <<>>
    /\ domains = <<>>
    /\ start = <<>>
    /\ next = <<>>
    /\ conflict = FALSE
    /\ covered = {}

\* neighbors is the adjacency of a simple undirected graph with at most k
\* edges, under any neighbor enumeration order.
Undirected(k) ==
    \E E \in EdgeSets(node_bound, k) :
        \E f \in AdjacencyLists(E, node_bound) :
            neighbors = [v \in 0 .. node_bound - 1 |-> f[v + 1]]

\* The call of wfc_color on a simple undirected graph with at most k edges whose
\* index range is dense, under any neighbor enumeration order.
Call(k) ==
    /\ node_bound \in 0 .. MaxN
    /\ node_count = node_bound
    /\ Undirected(k)
    /\ Fresh

Init == Call(MaxEdges)

\* The call on a graph whose node_count() may exceed its index range by one
\* (an implementation of the graph traits whose index range misses a vertex).
LooseCall ==
    /\ node_bound \in 0 .. MaxN
    /\ node_count \in {node_bound, node_bound + 1}
    /\ Undirected(MaxFairEdges)
    /\ Fresh

\* The ordered pairs of distinct vertices of a graph with n vertices.
Arcs(n) == {a \in (0 .. n - 1) \X (0 .. n - 1) : a[1] # a[2]}

\* The arc sets of the directed graphs with n vertices and at most k arcs.
ArcSets(n, k) == {A \in SUBSET Arcs(n) : Cardinality(A) <= k}

Successors(A, v) == {a[2] : a \in {b \in A : b[1] = v}}

\* Every way to enumerate the successors of vertices 0..k-1 of the directed
\* graph with arc set A.
RECURSIVE SuccessorLists(_, _)
SuccessorLists(A, k) ==
    IF k = 0 THEN {<<>>}
    ELSE {Append(f, o) : f \in SuccessorLists(A, k - 1), o \in Orders(Successors(A, k - 1))}

\* The call on a directed graph (neighbors yields the successors) whose index
\* range is dense.
DirectedCall ==
    /\ node_bound \in 0 .. MaxN
    /\ node_count = node_bound
    /\ \E A \in ArcSets(node_bound, MaxArcs) :
         \E f \in SuccessorLists(A, node_bound) :
            neighbors = [v \in 0 .. node_bound - 1 |-> f[v + 1]]
    /\ Fresh

\* The pairs <<v, w>> with w yielded by neighbors(v) and uncolored under c.
uncolored_pairs(v, c) == {<<v, w>> : w \in {x \in adjacent(v) : x # v /\ x \notin DOMAIN c}}

\* Lines 85-93: size the budget, create the two maps.
Begin ==
    /\ pc = "call"
    /\ max_colors' = initial_max_colors
    /\ colors' = <<>>
    /\ domains' = <<>>
    /\ pc' = "loop"
    /\ UNCHANGED <<graph, start, next, conflict, covered>>

\* Lines 95-110: reset, seed the vertex of maximum degree with color 1 and
\* propagate. unwrap() panics when the index range is empty.
Attempt ==
    /\ pc = "loop"
    /\ IF Vertices = {}
       THEN /\ colors' = <<>>
            /\ domains' = <<>>
            /\ pc' = "panic"
            /\ UNCHANGED <<start, conflict, covered>>
       ELSE LET reset == [v \in Vertices |-> full_domain(max_colors)]
                st == propagate(start_vertex, (start_vertex :> 1), reset)
            IN  /\ start' = <<start_vertex>>
                /\ colors' = st.colors
                /\ domains' = st.domains
                /\ conflict' = st.conflict
                /\ covered' = uncolored_pairs(start_vertex, <<>>)
                /\ pc' = "while"
    /\ UNCHANGED <<graph, max_colors, next>>

\* Lines 113-141: one pass of the main coloring loop.
Expand ==
    /\ pc = "while"
    /\ loop_guard(colors)
    /\ IF uncolored(colors) = {}
       THEN \* next is None: max_colors += 1; continue (the enclosing while loop)
            /\ max_colors - initial_max_colors < MaxRestarts
            /\ next' = <<>>
            /\ max_colors' = max_colors + 1
            /\ UNCHANGED <<colors, domains, conflict, covered>>
       ELSE LET v == next_vertex(colors, domains) IN
            /\ next' = <<v>>
            /\ IF v \in DOMAIN domains /\ domains[v] # <<>>
               THEN LET st == propagate(v, (v :> first(domains[v])) @@ colors, domains)
                    IN  /\ colors' = st.colors
                        /\ domains' = st.domains
                        /\ conflict' = (conflict \/ st.conflict)
                        /\ covered' = covered \cup uncolored_pairs(v, colors)
                        /\ UNCHANGED max_colors
               ELSE UNCHANGED <<max_colors, colors, domains, conflict, covered>>
    /\ pc' = "while"
    /\ UNCHANGED <<graph, start>>

\* Lines 113, 143-146: the loop condition fails, break, return colors.
Return ==
    /\ pc = "while"
    /\ ~loop_guard(colors)
    /\ pc' = "done"
    /\ UNCHANGED <<graph, max_colors, colors, domains, start, next, conflict, covered>>

Next == Begin \/ Attempt \/ Expand \/ Return

Spec == Init /\ [][Next]_vars

\* The call runs to its end: no step of wfc_color waits on anything.
FairSpec == Call(MaxFairEdges) /\ [][Next]_vars /\ WF_vars(Next)

\* The call on a graph whose vertex count may exceed its index range.
LooseSpec == LooseCall /\ [][Next]_vars

\* The call on a directed graph.
DirectedSpec == DirectedCall /\ [][Next]_vars

\* ------------------------------------------------------------------ helpers of the properties
\* The colors a mapping uses.
used_colors(c) == {c[v] : v \in DOMAIN c}

\* Three mutually adjacent vertices.
HasTriangle ==
    \E a, b, c \in Vertices :
        /\ a < b /\ b < c
        /\ b \in adjacent(a) /\ c \in adjacent(a) /\ c \in adjacent(b)

\* One center adjacent to every other vertex, no other edges, at least one leaf.
IsStar(center) ==
    /\ node_bound >= 2
    /\ center \in Vertices
    /\ adjacent(center) = Vertices \ {center}
    /\ \A v \in Vertices \ {center} : adjacent(v) = {center}

\* Increments of max_colors since the budget was sized.
restarts == max_colors - initial_max_colors

\* ------------------------------------------------------------------ C1
\* C1 (Validity): in the returned coloring both endpoints of every edge have a
\* color and the two colors differ, on every simple undirected graph with a
\* vertex and for every neighbor enumeration order.
Validity ==
    pc = "done" =>
        \A u \in Vertices : \A v \in adjacent(u) :
            /\ u \in DOMAIN colors
            /\ v \in DOMAIN colors
            /\ colors[u] # colors[v]

\* A returned coloring of a disconnected graph: a triangle, colored with three
\* colors, and a vertex in a component of its own.
ValidityWitness ==
    /\ pc = "done"
    /\ HasTriangle
    /\ node_bound = 4
    /\ \E v \in Vertices : degree(v) = 0
    /\ Cardinality(used_colors(colors)) = 3

\* ------------------------------------------------------------------ C2
\* C2 (Totality): the returned mapping has an entry for exactly the vertices of
\* the graph, also for those not connected to the seed vertex.
Totality == pc = "done" => DOMAIN colors = Vertices

\* A returned coloring of a graph with edges and with a vertex of degree 0,
\* which no propagation from the seed reaches.
TotalityWitness ==
    /\ pc = "done"
    /\ max_degree >= 1
    /\ \E v \in Vertices : degree(v) = 0 /\ v \in DOMAIN colors

\* ------------------------------------------------------------------ C3
\* C3 (Termination): on every graph with at least one vertex the call
\* eventually returns; the main loop does not repeat forever.
Termination == (node_bound >= 1) ~> (pc = "done")

\* A call that has returned after the main loop fixed vertices one at a time:
\* a graph without forced assignments needs one pass per vertex but the seed.
TerminationWitness ==
    /\ pc = "done"
    /\ node_bound >= 3
    /\ max_degree >= 1
    /\ \A v \in Vertices : Len(domains[v]) >= 2

\* ------------------------------------------------------------------ C4
\* C4 (No failure outcome): a call never aborts; on the graph with zero
\* vertices too it returns (the empty mapping).
NoFailure == pc # "panic"

\* ------------------------------------------------------------------ C5
\* C5 (Color range and count): on a graph with at least one vertex every
\* returned color is at least 1, and between 1 and node_count distinct colors
\* are used.
ColorRange ==
    (pc = "done" /\ node_bound >= 1) =>
        /\ \A v \in DOMAIN colors : colors[v] >= 1
        /\ Cardinality(used_colors(colors)) >= 1
        /\ Cardinality(used_colors(colors)) <= node_count

\* A returned coloring that uses as many colors as there are vertices.
ColorRangeWitness ==
    /\ pc = "done"
    /\ node_bound >= 3
    /\ Cardinality(used_colors(colors)) = node_bound

\* ------------------------------------------------------------------ C7
\* C7 (Restart bound): the number of increments of max_colors never exceeds
\* vertex_count - initial_max_colors + 1.
RestartBound ==
    pc # "call" => restarts <= node_count - initial_max_colors + 1

\* A finished call on a complete graph with three or more vertices, where the
\* bound is vertex_count - vertex_count + 1 = 1.
RestartBoundWitness ==
    /\ pc = "done"
    /\ node_bound >= 3
    /\ initial_max_colors = node_count
    /\ restarts <= 1

\* ------------------------------------------------------------------ C8
\* C8 (Star graphs): the coloring returned for a star uses exactly 2 colors,
\* whichever index the center has and however the neighbors are enumerated.
StarTwoColors ==
    (pc = "done" /\ \E center \in Vertices : IsStar(center)) =>
        Cardinality(used_colors(colors)) = 2

\* A returned coloring of a star with three leaves whose center is not the
\* vertex the index order visits first or last.
StarWitness ==
    /\ pc = "done"
    /\ node_bound = 4
    /\ IsStar(1)
    /\ neighbors[1] = <<3, 0, 2>>

\* ------------------------------------------------------------------ C9
\* C9 (Edgeless graphs): on a graph with vertices and no edges the result maps
\* every vertex to color 1.
EdgelessAllOne ==
    (pc = "done" /\ node_bound >= 1 /\ max_degree = 0) =>
        colors = [v \in Vertices |-> 1]

\* A returned coloring of an edgeless graph with several vertices.
EdgelessWitness ==
    /\ pc = "done"
    /\ node_bound >= 3
    /\ max_degree = 0
    /\ DOMAIN colors = Vertices

\* ------------------------------------------------------------------ C10
\* C10 (Propagation fixpoint): whenever propagate has returned, no uncolored
\* vertex has the color of a fixed neighbor in its domain.
PropagationFixpoint ==
    pc \in {"while", "done"} =>
        \A v \in uncolored(colors) : \A u \in adjacent(v) :
            u \in DOMAIN colors => ~contains(domains[v], colors[u])

\* propagate has returned and left an uncolored vertex with two fixed
\* neighbors of different colors, both removed from its domain.
PropagationFixpointWitness ==
    /\ pc = "while"
    /\ \E v \in uncolored(colors) : \E u, w \in adjacent(v) :
          /\ u \in DOMAIN colors /\ w \in DOMAIN colors
          /\ colors[u] # colors[w]
          /\ Len(domains[v]) = max_colors - 2


\* ------------------------------------------------------------------ C11
\* C11 (Forced assignments never conflict): whenever propagate fixes a vertex
\* to the single candidate left, that color is not the color of any neighbor
\* of the vertex that is fixed at that moment, popped or still on the stack.
NoForcedConflict == ~conflict

\* propagate has forced a vertex (its domain was shrunk to one candidate under
\* a budget of three or more, so two fixed neighbors took colors from it).
NoForcedConflictWitness ==
    /\ pc \in {"while", "done"}
    /\ max_colors >= 3
    /\ \E w \in DOMAIN colors :
          /\ <<w>> # start
          /\ Len(domains[w]) = 1
          /\ Cardinality({u \in adjacent(w) : u \in DOMAIN colors}) >= 2

\* ------------------------------------------------------------------ C12
\* C12 (Escalation step): when the main loop cannot proceed (the selected
\* uncolored vertex has an empty domain, or no candidate is left), the driver
\* increments max_colors by exactly one and restarts the attempt: in the next
\* state colors is empty and every domain is 1..=max_colors.
Stuck ==
    \/ uncolored(colors) = {}
    \/ domains[next_vertex(colors, domains)] = <<>>

BudgetCounter ==
    /\ [](pc = "loop" => max_colors = max_degree + 1)
    /\ [][pc # "call" => (max_colors' = max_colors \/ max_colors' = max_colors + 1)]_vars

\* The budget has been incremented once.
BudgetCounterWitness ==
    /\ pc = "while"
    /\ node_bound >= 2
    /\ max_colors = max_degree + 2

\* ------------------------------------------------------------------ C14
\* C14 (Selection rule): every pass of the main loop selects an uncolored
\* vertex; among the uncolored vertices with a non-empty domain it has the
\* smallest domain and, among those of that size, the lowest index; it has an
\* empty domain only when every uncolored vertex has one.
SelectionRule ==
    [][(pc = "while" /\ pc' = "while" /\ uncolored(colors) # {}) =>
           LET v == next'[1]
               candidates == {w \in uncolored(colors) : Len(domains[w]) > 0}
           IN  /\ next' # <<>>
               /\ v \in uncolored(colors)
               /\ candidates # {} =>
                     /\ v \in candidates
                     /\ \A w \in candidates :
                           \/ Len(domains[v]) < Len(domains[w])
                           \/ Len(domains[v]) = Len(domains[w]) /\ v <= w
               /\ domains[v] = <<>> => candidates = {}]_vars

\* The vertex selected last had a smaller domain than an uncolored vertex of
\* lower index, which it was preferred to.
SelectionRuleWitness ==
    /\ pc = "while"
    /\ next # <<>>
    /\ \E w \in uncolored(colors) :
          /\ w < next[1]
          /\ Len(domains[w]) > Len(domains[next[1]])

\* ------------------------------------------------------------------ C15
\* C15 (Seed step): no vertex is colored before the seed; the seed is a vertex
\* of maximum degree, gets color 1 and keeps it in the returned coloring.
SeedStep ==
    /\ pc = "loop" => DOMAIN colors = {}
    /\ pc \in {"while", "done"} =>
          /\ start # <<>>
          /\ \A v \in Vertices : degree(v) <= degree(start[1])
          /\ start[1] \in DOMAIN colors
          /\ colors[start[1]] = 1

\* A returned coloring whose seed is the only vertex of maximum degree and is
\* neither the first nor the last vertex of the index range.
SeedStepWitness ==
    /\ pc = "done"
    /\ node_bound = 4
    /\ start = <<1>>
    /\ colors[1] = 1
    /\ \A v \in Vertices \ {1} : degree(v) < degree(1)

\* ------------------------------------------------------------------ C16
\* C16 (Seed tie-break), as claimed: among the vertices of maximum degree the
\* seed is the one that comes first in the index range.
SeedTieFirst ==
    pc \in {"while", "done"} =>
        \A v \in Vertices : degree(v) = max_degree => start[1] <= v

\* C16, amended: among the vertices of maximum degree the seed is the one that
\* comes last in the index range (max_by_key keeps the last maximum).
SeedTieLast ==
    pc \in {"while", "done"} =>
        /\ degree(start[1]) = max_degree
        /\ \A v \in Vertices : degree(v) = max_degree => v <= start[1]

\* Several vertices of maximum degree, with edges, and the seed chosen.
SeedTieWitness ==
    /\ pc = "while"
    /\ max_degree >= 1
    /\ Cardinality({v \in Vertices : degree(v) = max_degree}) >= 3
    /\ start # <<>>

\* ------------------------------------------------------------------ C17
\* C17 (Lowest legal color): when the main loop fixes the selected vertex, its
\* domain is 1..=max_colors without the colors of its fixed neighbors, in
\* ascending order, and the color assigned is the smallest of them.
LowestLegalColor ==
    [][(pc = "while" /\ pc' = "while" /\ uncolored(colors) # {}
           /\ next' # <<>> /\ next'[1] \in DOMAIN colors') =>
           LET v == next'[1]
               legal == {c \in 1 .. max_colors :
                            \A u \in adjacent(v) : u \in DOMAIN colors => colors[u] # c}
           IN  /\ {domains[v][i] : i \in 1 .. Len(domains[v])} = legal
               /\ \A i, j \in 1 .. Len(domains[v]) : i < j => domains[v][i] < domains[v][j]
               /\ legal # {}
               /\ \A c \in legal : colors'[v] <= c
               /\ colors'[v] \in legal]_vars

\* The main loop fixed a vertex to color 3: colors 1 and 2 were taken by its
\* fixed neighbors and more than one candidate was left.
LowestLegalColorWitness ==
    /\ pc = "while"
    /\ next # <<>>
    /\ next[1] \in DOMAIN colors
    /\ colors[next[1]] = 3
    /\ Len(domains[next[1]]) >= 2

\* ------------------------------------------------------------------ C18
\* C18 (Asymmetric input), as claimed: on a directed graph the returned
\* coloring gives u and every v yielded by neighbors(u) different colors.
DirectedValidity ==
    pc = "done" =>
        \A u \in Vertices : \A v \in adjacent(u) :
            u \in DOMAIN colors /\ v \in DOMAIN colors => colors[u] # colors[v]

\* C18, amended: on a directed graph the returned coloring gives different
\* colors to u and to every v yielded by neighbors(u) that was uncolored when
\* the driver (seed step or main loop) fixed u.
CoveredValidity ==
    pc = "done" =>
        \A p \in covered :
            /\ p[1] \in DOMAIN colors
            /\ p[2] \in DOMAIN colors
            /\ colors[p[1]] # colors[p[2]]

\* A returned coloring of a graph with an arc that has no reverse arc and was
\* covered, and with an arc whose endpoints share a color.
CoveredValidityWitness ==
    /\ pc = "done"
    /\ \E p \in covered : p[1] \notin adjacent(p[2])
    /\ \E u \in Vertices : \E v \in adjacent(u) : colors[u] = colors[v]

\* ------------------------------------------------------------------ C19
\* C19 (No empty domain): every uncolored vertex has a candidate left, and the
\* vertex the main loop selected last has been fixed: the branch for a selected
\* vertex without candidates is never taken.
NonEmptyDomains ==
    pc \in {"while", "done"} =>
        /\ \A v \in uncolored(colors) : domains[v] # <<>>
        /\ next # <<>> => next[1] \in DOMAIN colors

\* After a pass of the main loop an uncolored vertex is left whose domain has
\* lost two candidates and still has two.
NonEmptyDomainsWitness ==
    /\ pc = "while"
    /\ next # <<>>
    /\ max_colors = 4
    /\ \E v \in uncolored(colors) : Len(domains[v]) = 2

\* ------------------------------------------------------------------ C20
\* C20 (First attempt succeeds): max_colors stays max_degree + 1 from the sizing
\* of the budget to the return, and every returned color is in
\* 1..=max_degree + 1.
FirstAttemptSucceeds ==
    /\ pc # "call" => max_colors = max_degree + 1
    /\ pc = "done" => \A v \in DOMAIN colors : colors[v] \in 1 .. max_degree + 1

\* A returned coloring that uses the last color of the budget.
FirstAttemptWitness ==
    /\ pc = "done"
    /\ max_degree >= 2
    /\ \E v \in DOMAIN colors : colors[v] = max_degree + 1

====
